---------------------------- MODULE Spec2Model ----------------------------
(***************************************************************************)
(* Model of src/server.js: an express application that serves three        *)
(* read-only listings and the order resource (POST, PUT, PATCH, DELETE)    *)
(* against a MariaDB connection pool.                                      *)
(*                                                                         *)
(* Text values are sequences of one-character strings, so that the         *)
(* validators and sanitizers of the validation chains are computed on the  *)
(* characters, as the library does.  A JSON number is represented by its   *)
(* decimal rendering (the validators stringify their input first).         *)
(***************************************************************************)
EXTENDS Integers, Sequences, FiniteSets, Bags, TLC

(***************************************************************************)
(* Bounds of the model.                                                    *)
(***************************************************************************)
\* requests received in one run
MaxRequests == 3
\* requests in flight at the same time
MaxInFlight == 2

(***************************************************************************)
(* Program constants.                                                      *)
(***************************************************************************)
\* createPool({... connectionLimit: 100})
connectionLimit == 100
\* "SELECT * FROM ... LIMIT 10"
LIMIT == 10

\* a pool scaled down to fewer connections than requests in flight, for
\* the runs where requests wait for a connection
SmallPool == 1

(***************************************************************************)
(* Characters and text.                                                    *)
(***************************************************************************)
Digits == <<"0", "1", "2", "3", "4", "5", "6", "7", "8", "9">>

DigitSet == {Digits[i] : i \in 1..10}

DigitVal(c) == (CHOOSE i \in 1..10 : Digits[i] = c) - 1

AllDigits(s) == \A i \in 1..Len(s) : s[i] \in DigitSet

\* value of a non-empty sequence of digits
RECURSIVE DigitsVal(_)
DigitsVal(s) ==
  IF Len(s) = 0 THEN 0
  ELSE 10 * DigitsVal(SubSeq(s, 1, Len(s) - 1)) + DigitVal(s[Len(s)])

StripSign(s) == IF Len(s) > 0 /\ s[1] \in {"-", "+"} THEN Tail(s) ELSE s

\* position of the first "." of s, 0 when there is none
DotPos(s) ==
  IF \E i \in 1..Len(s) : s[i] = "."
  THEN CHOOSE i \in 1..Len(s) : s[i] = "." /\ \A j \in 1..(i - 1) : s[j] # "."
  ELSE 0

\* the number a numeric column holds for a bound text parameter
ToInt(s) ==
  IF Len(s) > 0 /\ s[1] = "-" THEN 0 - DigitsVal(Tail(s)) ELSE DigitsVal(StripSign(s))

(***************************************************************************)
(* Validators of the validator.js library, as used by the chains.          *)
(***************************************************************************)
\* isInt(): /^[-+]?[0-9]+$/
isInt(s) == LET u == StripSign(s) IN Len(u) > 0 /\ AllDigits(u)

\* isDecimal(): /^[-+]?([0-9]+)?(\.[0-9]{1,})?$/ and not '', '-', '+'
isDecimal(s) ==
  LET u == StripSign(s)
      p == DotPos(u)
  IN /\ Len(u) > 0
     /\ IF p = 0 THEN AllDigits(u)
        ELSE /\ AllDigits(SubSeq(u, 1, p - 1))
             /\ p < Len(u)
             /\ AllDigits(SubSeq(u, p + 1, Len(u)))

\* isFloat({min}): /^[-+]?([0-9]+)?(\.[0-9]*)?$/ (no exponent in the
\* alphabet), not '', '.', '-', '+', and parseFloat(s) >= min for min = 0
isFloatMin0(s) ==
  LET u == StripSign(s)
      p == DotPos(u)
      int == IF p = 0 THEN u ELSE SubSeq(u, 1, p - 1)
      frac == IF p = 0 THEN <<>> ELSE SubSeq(u, p + 1, Len(u))
      negative == Len(s) > 0 /\ s[1] = "-"
      zero == \A i \in 1..Len(u) : u[i] \in {"0", "."}
  IN /\ Len(u) > 0
     /\ u # <<".">> \/ Len(s) > 1
     /\ AllDigits(int) /\ AllDigits(frac)
     \* parseFloat yields NaN without a digit, and NaN >= 0 is false
     /\ Len(int) + Len(frac) > 0
     /\ ~negative \/ zero

DaysIn(y, m) ==
  IF m \in {4, 6, 9, 11} THEN 30
  ELSE IF m = 2
       THEN IF (y % 4 = 0 /\ y % 100 # 0) \/ y % 400 = 0 THEN 29 ELSE 28
       ELSE 31

\* isDate(): format YYYY/MM/DD, delimiters '/' and '-', not strict
isDate(s) ==
  /\ Len(s) = 10
  /\ s[5] \in {"/", "-"} /\ s[8] = s[5]
  /\ AllDigits(SubSeq(s, 1, 4)) /\ AllDigits(SubSeq(s, 6, 7))
  /\ AllDigits(SubSeq(s, 9, 10))
  /\ LET y == DigitsVal(SubSeq(s, 1, 4))
         m == DigitsVal(SubSeq(s, 6, 7))
         d == DigitsVal(SubSeq(s, 9, 10))
     IN m \in 1..12 /\ d \in 1..DaysIn(y, m)

\* isISO8601(), not strict, for the calendar-date form YYYY-MM-DD
isISO8601(s) ==
  /\ Len(s) = 10
  /\ s[5] = "-" /\ s[8] = "-"
  /\ AllDigits(SubSeq(s, 1, 4)) /\ AllDigits(SubSeq(s, 6, 7))
  /\ AllDigits(SubSeq(s, 9, 10))
  /\ DigitsVal(SubSeq(s, 6, 7)) \in 1..12
  /\ DigitsVal(SubSeq(s, 9, 10)) \in 1..31

\* notEmpty(): the stringified value has a character
notEmpty(s) == Len(s) > 0

\* isLength({min: 1})
isLengthMin1(s) == Len(s) >= 1

(***************************************************************************)
(* Sanitizers.                                                             *)
(***************************************************************************)
RECURSIVE ltrim(_)
ltrim(s) == IF Len(s) > 0 /\ s[1] = " " THEN ltrim(Tail(s)) ELSE s

RECURSIVE rtrim(_)
rtrim(s) ==
  IF Len(s) > 0 /\ s[Len(s)] = " " THEN rtrim(SubSeq(s, 1, Len(s) - 1)) ELSE s

\* trim(): strips the whitespace on both sides
trim(s) == rtrim(ltrim(s))

\* the entity escape() writes for a character (the backquote, the eighth
\* character it replaces, is not in the alphabet of the model)
Entity(c) ==
  CASE c = "&" -> <<"&", "a", "m", "p", ";">>
    [] c = "<" -> <<"&", "l", "t", ";">>
    [] c = ">" -> <<"&", "g", "t", ";">>
    [] c = "\"" -> <<"&", "q", "u", "o", "t", ";">>
    [] c = "'" -> <<"&", "#", "x", "2", "7", ";">>
    [] c = "/" -> <<"&", "#", "x", "2", "F", ";">>
    [] c = "\\" -> <<"&", "#", "x", "5", "C", ";">>
    [] OTHER -> <<c>>

\* escape(): replaces the HTML-special characters by entities
RECURSIVE escape(_)
escape(s) == IF Len(s) = 0 THEN <<>> ELSE Entity(s[1]) \o escape(Tail(s))

(***************************************************************************)
(* Request bodies.  A body is a function from its keys to text values; a   *)
(* key that is absent is undefined, and a validator reads it as ''.        *)
(***************************************************************************)
Columns ==
  <<"ORD_AMOUNT", "ADVANCE_AMOUNT", "ORD_DATE", "CUST_CODE", "AGENT_CODE",
    "ORD_DESCRIPTION">>

ColumnSet == {Columns[i] : i \in 1..Len(Columns)}

\* the order in which the keys of a body are enumerated
KeyOrder == <<"ORD_NUM">> \o Columns \o <<"NOTE">>

Has(b, k) == k \in DOMAIN b

\* toString(value): '' for undefined
Str(b, k) == IF Has(b, k) THEN b[k] ELSE <<>>

\* Object keys of a body, in enumeration order
Keys(b) == SelectSeq(KeyOrder, LAMBDA k : Has(b, k))

\* the body with trim() applied to those of the keys ks that are present
Trimmed(b, ks) == [x \in DOMAIN b |-> IF x \in ks THEN trim(b[x]) ELSE b[x]]

Err(ok, field, msg) ==
  IF ok THEN <<>> ELSE <<[field |-> field, message |-> msg]>>

\* isString(): the value is a string (every present value of the model is)
isString(b, k) == Has(b, k)

trimEscape(s) == escape(trim(s))

\* the body with trim().escape() applied to those of the keys ks that are
\* present
TrimmedEscaped(b, ks) ==
  [x \in DOMAIN b |-> IF x \in ks THEN trimEscape(b[x]) ELSE b[x]]

(***************************************************************************)
(* The validation chains of the four order routes.                         *)
(***************************************************************************)
\* app.post("/orders", [...])
PostErrors(b) ==
     Err(isFloatMin0(Str(b, "ORD_AMOUNT")), "ORD_AMOUNT",
         "ORD_AMOUNT must be a positive number")
  \o Err(isFloatMin0(Str(b, "ADVANCE_AMOUNT")), "ADVANCE_AMOUNT",
         "ADVANCE_AMOUNT must be a positive number")
  \o Err(isDate(Str(b, "ORD_DATE")), "ORD_DATE", "ORD_DATE must be a valid date")
  \o Err(notEmpty(Str(b, "CUST_CODE")), "CUST_CODE", "CUST_CODE is required")
  \o Err(notEmpty(Str(b, "AGENT_CODE")), "AGENT_CODE", "AGENT_CODE is required")
  \o Err(notEmpty(Str(b, "ORD_DESCRIPTION")), "ORD_DESCRIPTION",
         "ORD_DESCRIPTION is required")

PostSanitize(b) == Trimmed(b, {"CUST_CODE", "AGENT_CODE", "ORD_DESCRIPTION"})

\* app.put("/orders/:ORD_NUM", [...])
PutErrors(p, b) ==
     Err(isInt(p), "ORD_NUM", "Invalid value")
  \o Err(isDecimal(Str(b, "ORD_AMOUNT")), "ORD_AMOUNT", "Invalid value")
  \o Err(isDecimal(Str(b, "ADVANCE_AMOUNT")), "ADVANCE_AMOUNT", "Invalid value")
  \o Err(isISO8601(Str(b, "ORD_DATE")), "ORD_DATE", "Invalid value")
  \o Err(isString(b, "CUST_CODE"), "CUST_CODE", "Invalid value")
  \o Err(isString(b, "AGENT_CODE"), "AGENT_CODE", "Invalid value")
  \o Err(isString(b, "ORD_DESCRIPTION"), "ORD_DESCRIPTION", "Invalid value")

\* the sanitizers of app.put without escape()
PutSanitizeTrimOnly(b) ==
  Trimmed(b, {"CUST_CODE", "AGENT_CODE", "ORD_DESCRIPTION"})

PutSanitize(b) ==
  TrimmedEscaped(b, {"CUST_CODE", "AGENT_CODE", "ORD_DESCRIPTION"})

\* app.patch("/orders/:ORD_NUM", [...]): optional() skips an absent key
PatchErrors(p, b) ==
     Err(isInt(p), "ORD_NUM", "ORD_NUM must be an integer")
  \o Err(~Has(b, "ORD_AMOUNT") \/ isFloatMin0(Str(b, "ORD_AMOUNT")),
         "ORD_AMOUNT", "Invalid value")
  \o Err(~Has(b, "ADVANCE_AMOUNT") \/ isFloatMin0(Str(b, "ADVANCE_AMOUNT")),
         "ADVANCE_AMOUNT", "Invalid value")
  \o Err(~Has(b, "ORD_DATE") \/ isDate(Str(b, "ORD_DATE")),
         "ORD_DATE", "Invalid value")
  \o Err(~Has(b, "CUST_CODE") \/ isLengthMin1(Str(b, "CUST_CODE")),
         "CUST_CODE", "Invalid value")
  \o Err(~Has(b, "AGENT_CODE") \/ isLengthMin1(Str(b, "AGENT_CODE")),
         "AGENT_CODE", "Invalid value")

PatchSanitize(b) == Trimmed(b, {"ORD_DESCRIPTION"})

\* app.delete("/orders/:ORD_NUM", [param("ORD_NUM").isInt()], ...)
DeleteErrors(p) == Err(isInt(p), "ORD_NUM", "Invalid value")

\* what the chain of a route records for a request
ChainErrors(route, p, b) ==
  CASE route = "POST" -> PostErrors(b)
    [] route = "PUT" -> PutErrors(p, b)
    [] route = "PATCH" -> PatchErrors(p, b)
    [] route = "DELETE" -> DeleteErrors(p)
    [] OTHER -> <<>>

\* the body the handler of a route reads
ChainSanitize(route, b) ==
  CASE route = "POST" -> PostSanitize(b)
    [] route = "PUT" -> PutSanitize(b)
    [] route = "PATCH" -> PatchSanitize(b)
    [] OTHER -> b

\* app.post without the validationResult(req) check
ChecksValidationResultNotPost(route) == route \in {"PUT", "PATCH"}

\* the handlers that start with validationResult(req) and return 400
ChecksValidationResult(route) == route \in {"POST", "PUT", "PATCH"}

(***************************************************************************)
(* The requests the model receives.                                        *)
(***************************************************************************)
NoBody == [k \in {} |-> <<>>]

Date1 == <<"2", "0", "2", "5", "-", "0", "9", "-", "2", "8">>

\* a payload every order route accepts
BodyFull ==
  [ORD_AMOUNT |-> <<"5", "0">>, ADVANCE_AMOUNT |-> <<"1", "0">>,
   ORD_DATE |-> Date1, CUST_CODE |-> <<"C", "1">>, AGENT_CODE |-> <<"A", "3">>,
   ORD_DESCRIPTION |-> <<"n">>]

\* text with surrounding whitespace and HTML-special characters
BodyHtml ==
  [BodyFull EXCEPT !.AGENT_CODE = <<"A", "&">>,
                   !.ORD_DESCRIPTION = <<" ", "<", "b", " ">>]

\* a negative amount
BodyNegative == [BodyFull EXCEPT !.ORD_AMOUNT = <<"-", "5">>]

\* every field but ORD_DESCRIPTION
BodyNoDescription ==
  [k \in ColumnSet \ {"ORD_DESCRIPTION"} |-> BodyFull[k]]

\* one field
BodyAmount == [ORD_AMOUNT |-> <<"6", "0">>]

\* the key column as a body key
BodyOrdNum == [ORD_NUM |-> <<"2">>]

\* a key that names no column
BodyNote == [NOTE |-> <<"n">>]

\* a description with surrounding whitespace
BodySpaced == [ORD_DESCRIPTION |-> <<" ", "m", " ">>]

Request(route, p, b) == [route |-> route, param |-> p, body |-> b]

Requests ==
     {Request(r, <<>>, NoBody) : r \in {"GET_ORDERS", "GET_CUSTOMERS", "GET_STUDENTS"}}
  \cup {Request("POST", <<>>, b) :
          b \in {BodyFull, BodyHtml, BodyNegative, BodyNoDescription}}
  \cup {Request("PUT", <<"1">>, b) :
          b \in {BodyFull, BodyHtml, BodyNegative, BodyNoDescription}}
  \cup {Request("PUT", <<"x">>, BodyFull)}
  \cup {Request("PATCH", <<"1">>, b) :
          b \in {NoBody, BodyAmount, BodyOrdNum, BodyNote, BodyNegative,
                BodySpaced}}
  \cup {Request("PATCH", <<"x">>, BodyAmount)}
  \cup {Request("DELETE", p, NoBody) : p \in {<<"1">>, <<"2">>, <<"x">>}}

\* the requests that arrive while others are in flight
Overlapping ==
  {Request("GET_ORDERS", <<>>, NoBody),
   Request("POST", <<>>, BodyFull),
   Request("POST", <<>>, BodyNegative),
   Request("PUT", <<"1">>, BodyFull),
   Request("PATCH", <<"1">>, BodyAmount),
   Request("PATCH", <<"1">>, NoBody),
   Request("DELETE", <<"1">>, NoBody)}

(***************************************************************************)
(* The relational store: the statements the handlers send and what the     *)
(* store answers.  A row is a function from column names to values.        *)
(***************************************************************************)
RowColumns == <<"ORD_NUM">> \o Columns

Statement(kind, table, cols, vals) ==
  [kind |-> kind, table |-> table, cols |-> cols, vals |-> vals]

NoStatement == Statement("NONE", "NONE", <<>>, <<>>)

NoResult == [rows |-> <<>>, maxNull |-> TRUE, maxNum |-> 0, affectedRows |-> 0]

SeqSet(q) == {q[i] : i \in 1..Len(q)}

Max(S) == CHOOSE m \in S : \A n \in S : n <= m

Min2(a, b) == IF a <= b THEN a ELSE b

\* the rows of t whose ORD_NUM is k
Matching(t, k) == {i \in 1..Len(t) : t[i]["ORD_NUM"] = k}

\* no two rows of t have the same ORD_NUM
UniqueOrdNum(t) ==
  \A i, j \in 1..Len(t) : t[i]["ORD_NUM"] = t[j]["ORD_NUM"] => i = j

\* t without the rows at the positions in D
RECURSIVE Without(_, _)
Without(t, D) ==
  IF Len(t) = 0 THEN <<>>
  ELSE LET rest == Without(SubSeq(t, 1, Len(t) - 1), D)
       IN IF Len(t) \in D THEN rest ELSE Append(rest, t[Len(t)])

\* the value a column holds for a bound parameter
Stored(col, v) == IF col = "ORD_NUM" THEN ToInt(v) ELSE v

\* position of col in cols, 0 when it is not there
IndexOf(cols, col) ==
  IF \E i \in 1..Len(cols) : cols[i] = col
  THEN CHOOSE i \in 1..Len(cols) : cols[i] = col
  ELSE 0

Ok(t, res) == [ok |-> TRUE, orders |-> t, result |-> res, error |-> ""]

Failed(t, msg) == [ok |-> FALSE, orders |-> t, result |-> NoResult, error |-> msg]

\* the SELECT without its LIMIT
SelectAll(rows) == [NoResult EXCEPT !.rows = rows]

\* SELECT * FROM <table> LIMIT 10
SelectLimit(rows) ==
  [NoResult EXCEPT !.rows = SubSeq(rows, 1, Min2(LIMIT, Len(rows)))]

\* SELECT MAX(ORD_NUM) AS maxNum FROM orders: NULL for an empty table
SelectMax(t) ==
  IF Len(t) = 0 THEN NoResult
  ELSE [NoResult EXCEPT !.maxNull = FALSE,
                        !.maxNum = Max({t[i]["ORD_NUM"] : i \in 1..Len(t)})]

\* INSERT IGNORE: a duplicate key is skipped and reported as no error
InsertIgnore(t, stmt, unique) ==
  LET row == [c \in SeqSet(RowColumns) |-> stmt.vals[IndexOf(stmt.cols, c)]]
  IN IF unique /\ Matching(t, row["ORD_NUM"]) # {}
     THEN {Ok(t, NoResult)}
     ELSE {Ok(Append(t, row), [NoResult EXCEPT !.affectedRows = 1])}

\* INSERT INTO orders (...) VALUES (?, ?, ?, ?, ?, ?, ?)
Insert(t, stmt, unique) ==
  LET row == [c \in SeqSet(RowColumns) |-> stmt.vals[IndexOf(stmt.cols, c)]]
  IN IF unique /\ Matching(t, row["ORD_NUM"]) # {}
     THEN {Failed(t, "Duplicate entry for key PRIMARY")}
     ELSE {Ok(Append(t, row), [NoResult EXCEPT !.affectedRows = 1])}

\* an UPDATE whose WHERE clause is lost: it rewrites every row
UpdateEveryRow(t, stmt, unique) ==
  LET new(row) ==
        [c \in SeqSet(RowColumns) |->
           IF IndexOf(stmt.cols, c) = 0 THEN row[c]
           ELSE Stored(c, stmt.vals[IndexOf(stmt.cols, c)])]
      t2 == [i \in 1..Len(t) |-> new(t[i])]
  IN IF Len(stmt.cols) = 0
     THEN {Failed(t, "You have an error in your SQL syntax")}
     ELSE IF ~(SeqSet(stmt.cols) \subseteq SeqSet(RowColumns))
     THEN {Failed(t, "Unknown column")}
     ELSE {Ok(t2, [NoResult EXCEPT !.affectedRows = Len(t)])}

\* UPDATE orders SET <cols>=? ... WHERE ORD_NUM=?
Update(t, stmt, unique) ==
  LET key == stmt.vals[Len(stmt.vals)]
      hit == Matching(t, ToInt(key))
      new(row) ==
        [c \in SeqSet(RowColumns) |->
           IF IndexOf(stmt.cols, c) = 0 THEN row[c]
           ELSE Stored(c, stmt.vals[IndexOf(stmt.cols, c)])]
      t2 == [i \in 1..Len(t) |-> IF i \in hit THEN new(t[i]) ELSE t[i]]
  IN IF Len(stmt.cols) = 0
     THEN {Failed(t, "You have an error in your SQL syntax")}
     ELSE IF ~(SeqSet(stmt.cols) \subseteq SeqSet(RowColumns))
     THEN {Failed(t, "Unknown column")}
     ELSE IF unique /\ UniqueOrdNum(t) /\ ~UniqueOrdNum(t2)
     THEN {Failed(t, "Duplicate entry for key PRIMARY")}
     ELSE {Ok(t2, [NoResult EXCEPT !.affectedRows = Cardinality(hit)])}

\* a DELETE that is never committed: it reports the rows it matched and
\* they stay in the table
DeleteUncommitted(t, stmt) ==
  LET key == stmt.vals[1]
      hit == Matching(t, IF isInt(key) THEN ToInt(key) ELSE 0)
      done == Ok(t, [NoResult EXCEPT !.affectedRows = Cardinality(hit)])
  IN IF isInt(key) THEN {done}
     ELSE {done, Failed(t, "Truncated incorrect DOUBLE value")}

\* DELETE FROM orders WHERE ORD_NUM=?  A key that is no number is an error
\* under a strict sql_mode and compares as 0 otherwise.
Delete(t, stmt) ==
  LET key == stmt.vals[1]
      hit == Matching(t, IF isInt(key) THEN ToInt(key) ELSE 0)
      done == Ok(Without(t, hit), [NoResult EXCEPT !.affectedRows = Cardinality(hit)])
  IN IF isInt(key) THEN {done}
     ELSE {done, Failed(t, "Truncated incorrect DOUBLE value")}

(***************************************************************************)
(* State.                                                                  *)
(***************************************************************************)
VARIABLES
  orders,       \* the orders table
  customer,     \* the customer table
  student,      \* the student table
  uniqueKey,    \* whether the store enforces a unique ORD_NUM
  capacity,     \* connections the pool hands out at most
  pool,         \* connections of the pool that are handed out
  reqs,         \* the requests in flight, a bag of request records
  served,       \* number of requests received
  lastDone,     \* history: the request that finished last, as it finished
  lastCreated,  \* history: <<ORD_NUM>> of the last 201 response, <<>> if none
  removedSince, \* history: a row left its ORD_NUM since the last 201
  created,      \* history: the ORD_NUMs of the 201 responses, in order
  deleted       \* history: the DELETE responses 200 and 404, counted

vars ==
  <<orders, customer, student, uniqueKey, capacity, pool, reqs, served, lastDone,
    lastCreated, removedSince, created, deleted>>

NoReply ==
  [status |-> 0, message |-> "", ORD_NUM |-> 0, key |-> <<>>, total |-> 0,
   rows |-> <<>>, errors |-> <<>>, error |-> ""]

\* no request
NoRequest ==
  [pc |-> "Idle", route |-> "NONE", param |-> <<>>, raw |-> NoBody,
   body |-> NoBody, errors |-> <<>>, conn |-> FALSE, stmt |-> NoStatement,
   issued |-> <<>>, result |-> NoResult, error |-> "", newOrderNum |-> 0,
   reply |-> NoReply, sent |-> 0, via |-> "", acquired |-> 0, released |-> 0,
   before |-> <<>>, after |-> <<>>, follows |-> <<>>, prevCreated |-> <<>>,
   removed |-> FALSE]

Table(name) ==
  CASE name = "orders" -> orders
    [] name = "customer" -> customer
    [] name = "student" -> student

Init ==
  /\ orders = <<>>
  /\ customer = [i \in 1..(LIMIT + 1) |-> [CUST_CODE |-> i]]
  /\ student = [i \in 1..2 |-> [ROLLID |-> i]]
  /\ uniqueKey \in BOOLEAN
  /\ capacity = connectionLimit
  /\ pool = 0
  /\ reqs = EmptyBag
  /\ served = 0
  /\ lastDone = NoRequest
  /\ lastCreated = <<>>
  /\ removedSince = FALSE
  /\ created = <<>>
  /\ deleted = [ok |-> 0, none |-> 0]

(***************************************************************************)
(* What a handler does between two awaits.                                 *)
(***************************************************************************)
\* the statement a handler sends first on its connection
FirstStatement(q) ==
  CASE q.route = "GET_ORDERS" -> Statement("SELECT", "orders", <<>>, <<>>)
    [] q.route = "GET_CUSTOMERS" -> Statement("SELECT", "customer", <<>>, <<>>)
    [] q.route = "GET_STUDENTS" -> Statement("SELECT", "student", <<>>, <<>>)
    [] q.route = "POST" -> Statement("SELECT_MAX", "orders", <<>>, <<>>)
    [] q.route = "PUT" ->
         Statement("UPDATE", "orders", Columns,
                   [i \in 1..Len(Columns) |-> Str(q.body, Columns[i])]
                     \o <<q.param>>)
    [] q.route = "PATCH" ->
         LET updates == Keys(q.body)
             values == [i \in 1..Len(updates) |-> q.body[updates[i]]]
         IN Statement("UPDATE", "orders", updates, values \o <<q.param>>)
    [] q.route = "DELETE" -> Statement("DELETE", "orders", <<>>, <<q.param>>)

\* the allocation that reads result.maxNum of the row list: undefined
NewOrderNumNoRow(result) == 0 + 1

\* the allocation without the increment
NewOrderNumNoIncrement(result) ==
  IF result.maxNull \/ result.maxNum = 0 THEN 1 ELSE result.maxNum

\* const newOrderNum = (result[0].maxNum || 0) + 1
NewOrderNum(result) ==
  (IF result.maxNull \/ result.maxNum = 0 THEN 0 ELSE result.maxNum) + 1

\* the INSERT of app.post
InsertStatement(q, num) ==
  Statement("INSERT", "orders", RowColumns,
            <<num>> \o [i \in 1..Len(Columns) |-> Str(q.body, Columns[i])])

NotFound == [NoReply EXCEPT !.status = 404, !.message = "Order not found"]

\* the handler replies of a program whose route answers route without the
\* affectedRows check
ReplyUnchecked(q, route) ==
  CASE q.route \in {"GET_ORDERS", "GET_CUSTOMERS", "GET_STUDENTS"} ->
         [NoReply EXCEPT !.status = 200, !.total = Len(q.result.rows),
                         !.rows = q.result.rows]
    [] q.route = "POST" ->
         [NoReply EXCEPT !.status = 201, !.message = "Order created successfully",
                         !.ORD_NUM = q.newOrderNum]
    [] q.route = "PUT" ->
         IF q.result.affectedRows = 0 /\ route # "PUT" THEN NotFound
         ELSE [NoReply EXCEPT !.status = 200, !.message = "Order updated",
                              !.key = q.param]
    [] q.route = "PATCH" ->
         IF q.result.affectedRows = 0 /\ route # "PATCH" THEN NotFound
         ELSE [NoReply EXCEPT !.status = 200, !.message = "Order partially updated"]
    [] q.route = "DELETE" ->
         IF q.result.affectedRows = 0 /\ route # "DELETE" THEN NotFound
         ELSE [NoReply EXCEPT !.status = 200, !.message = "Order deleted",
                              !.key = q.param]

\* app.delete without its affectedRows check
HandlerReplyDeleteUnchecked(q) == ReplyUnchecked(q, "DELETE")

\* app.patch without its affectedRows check
HandlerReplyPatchUnchecked(q) == ReplyUnchecked(q, "PATCH")

\* the response a handler sends once its last statement has executed
HandlerReply(q) ==
  CASE q.route \in {"GET_ORDERS", "GET_CUSTOMERS", "GET_STUDENTS"} ->
         [NoReply EXCEPT !.status = 200, !.total = Len(q.result.rows),
                         !.rows = q.result.rows]
    [] q.route = "POST" ->
         [NoReply EXCEPT !.status = 201, !.message = "Order created successfully",
                         !.ORD_NUM = q.newOrderNum]
    [] q.route = "PUT" ->
         IF q.result.affectedRows = 0 THEN NotFound
         ELSE [NoReply EXCEPT !.status = 200, !.message = "Order updated",
                              !.key = q.param]
    [] q.route = "PATCH" ->
         IF q.result.affectedRows = 0 THEN NotFound
         ELSE [NoReply EXCEPT !.status = 200, !.message = "Order partially updated"]
    [] q.route = "DELETE" ->
         IF q.result.affectedRows = 0 THEN NotFound
         ELSE [NoReply EXCEPT !.status = 200, !.message = "Order deleted",
                              !.key = q.param]

\* res.status(400).json({ errors: errors.array() })
ValidationReply(q) == [NoReply EXCEPT !.status = 400, !.errors = q.errors]

\* res.status(500).json({ error: err.message })
ErrorReply(msg) == [NoReply EXCEPT !.status = 500, !.error = msg]

\* a 404 that returns without releasing the connection
ReleasesUnlessNotFound(q) ==
  IF q.conn /\ ~(q.pc = "Executed" /\ q.result.affectedRows = 0
                   /\ q.route \in {"PUT", "PATCH", "DELETE"})
  THEN 1 ELSE 0

\* conn.release() as the last statement of the try instead of finally
ReleasesInTry(q) == IF q.conn /\ q.pc = "Executed" THEN 1 ELSE 0

\* finally { if (conn) conn.release(); }
Releases(q) == IF q.conn THEN 1 ELSE 0

\* a handler whose 404 lacks its return: res.json runs a second time
SendsAfterNotFound(reply) == IF reply.status = 404 THEN 2 ELSE 1

\* the res.json calls of one pass through a handler: the 400 and the 404
\* return, so each path ends in one
Sends(reply) == 1

One(q) == SetToBag({q})

\* request q of the bag takes a step and becomes q2
Step(q, q2) == reqs' = (reqs (-) One(q)) (+) One(q2)

\* Request q sends reply and leaves its handler.  The finished request is
\* kept in lastDone, with the table as it is now and the history of
\* creations before it.
Finish(q, reply, via) ==
  /\ lastDone' =
       [q EXCEPT !.pc = "Done", !.reply = reply, !.sent = q.sent + Sends(reply),
                 !.via = via, !.conn = FALSE,
                 !.released = q.released + Releases(q), !.after = orders,
                 !.prevCreated = lastCreated, !.removed = removedSince]
  /\ pool' = pool - Releases(q)
  /\ IF reply.status = 201
     THEN lastCreated' = <<reply.ORD_NUM>> /\ removedSince' = FALSE
     ELSE UNCHANGED <<lastCreated, removedSince>>
  /\ created' = IF reply.status = 201 THEN Append(created, reply.ORD_NUM)
                ELSE created
  /\ deleted' = IF q.route = "DELETE" /\ reply.status = 200
                THEN [deleted EXCEPT !.ok = deleted.ok + 1]
                ELSE IF q.route = "DELETE" /\ reply.status = 404
                THEN [deleted EXCEPT !.none = deleted.none + 1]
                ELSE deleted

Store == <<orders, customer, student, uniqueKey, capacity>>

InFlight == BagToSet(reqs)

\* the ORD_NUM parameter of the request that finished last, when that was a
\* DELETE answered 200
JustDeleted ==
  IF lastDone.route = "DELETE" /\ lastDone.reply.status = 200
  THEN lastDone.param ELSE <<>>

(***************************************************************************)
(* Actions.                                                                *)
(***************************************************************************)
\* A request of the menu arrives and its validation chain runs; the
\* handler starts and returns 400 or asks the pool for a connection.
Arrive(r) ==
  LET q == [NoRequest EXCEPT
              !.route = r.route, !.param = r.param, !.raw = r.body,
              !.errors = ChainErrors(r.route, r.param, r.body),
              !.body = ChainSanitize(r.route, r.body),
              !.before = orders, !.follows = JustDeleted]
  IN /\ BagCardinality(reqs) < MaxInFlight
     /\ served < MaxRequests
     /\ served' = served + 1
     /\ IF ChecksValidationResult(q.route) /\ q.errors # <<>>
        THEN /\ Finish(q, ValidationReply(q), "Rejected")
             /\ UNCHANGED reqs
        ELSE /\ reqs' = reqs (+) One([q EXCEPT !.pc = "Connecting"])
             /\ UNCHANGED <<pool, lastDone, lastCreated, removedSince,
                            created, deleted>>
     /\ UNCHANGED Store

\* pool.getConnection() resolves and the handler sends its first statement
GetConnection(q) ==
  LET stmt == FirstStatement(q)
  IN /\ q.pc = "Connecting"
     /\ pool < capacity
     /\ pool' = pool + 1
     /\ Step(q, [q EXCEPT !.pc = "Executing", !.conn = TRUE,
                          !.acquired = q.acquired + 1, !.stmt = stmt,
                          !.issued = Append(q.issued, stmt)])
     /\ UNCHANGED <<Store, served, lastDone, lastCreated, removedSince,
                    created, deleted>>

\* pool.getConnection() rejects: catch, then finally with no connection
ConnectFailed(q) ==
  /\ q.pc = "Connecting"
  /\ Finish(q, ErrorReply("connection"), "ConnectFailed")
  /\ reqs' = reqs (-) One(q)
  /\ UNCHANGED <<Store, served>>

\* what the store answers to a statement
Outcomes(stmt) ==
  CASE stmt.kind = "SELECT" -> {Ok(orders, SelectLimit(Table(stmt.table)))}
    [] stmt.kind = "SELECT_MAX" -> {Ok(orders, SelectMax(orders))}
    [] stmt.kind = "INSERT" -> Insert(orders, stmt, uniqueKey)
    [] stmt.kind = "UPDATE" -> Update(orders, stmt, uniqueKey)
    [] stmt.kind = "DELETE" -> Delete(orders, stmt)

\* the statement changes the ORD_NUM of a row or removes a row
Removes(stmt, o) ==
  /\ o.ok /\ o.result.affectedRows > 0
  /\ \/ stmt.kind = "DELETE"
     \/ stmt.kind = "UPDATE" /\ IndexOf(stmt.cols, "ORD_NUM") # 0

\* a store that makes the MAX read of one creation wait while another
\* creation is between its MAX read and its INSERT
DbExecuteSerialized(q) ==
  /\ q.pc = "Executing"
  /\ ~(/\ q.stmt.kind = "SELECT_MAX"
       /\ \E o \in InFlight :
            /\ o.route = "POST"
            /\ \/ o.pc = "Executed" /\ o.stmt.kind = "SELECT_MAX"
               \/ o.pc = "Executing" /\ o.stmt.kind = "INSERT")
  /\ \E o \in Outcomes(q.stmt) :
       /\ orders' = o.orders
       /\ Step(q, [q EXCEPT !.pc = IF o.ok THEN "Executed" ELSE "QueryFailed",
                            !.result = o.result, !.error = o.error])
       /\ removedSince' = (removedSince \/ Removes(q.stmt, o))
  /\ UNCHANGED <<customer, student, uniqueKey, capacity, pool, served, lastDone,
                 lastCreated, created, deleted>>

\* the store executes the statement of request q
DbExecute(q) ==
  /\ q.pc = "Executing"
  /\ \E o \in Outcomes(q.stmt) :
       /\ orders' = o.orders
       /\ Step(q, [q EXCEPT !.pc = IF o.ok THEN "Executed" ELSE "QueryFailed",
                            !.result = o.result, !.error = o.error])
       /\ removedSince' = (removedSince \/ Removes(q.stmt, o))
  /\ UNCHANGED <<customer, student, uniqueKey, capacity, pool, served, lastDone,
                 lastCreated, created, deleted>>

\* a handler that takes a failed MAX query for an empty table and goes on
DbFailSwallowed(q) ==
  /\ q.pc = "Executing"
  /\ Step(q, [q EXCEPT !.pc = IF q.stmt.kind = "SELECT_MAX" THEN "Executed"
                                ELSE "QueryFailed",
                       !.error = "connection"])
  /\ UNCHANGED <<Store, pool, served, lastDone, lastCreated, removedSince,
                 created, deleted>>

\* the connection to the store is lost before the statement executes
DbFail(q) ==
  /\ q.pc = "Executing"
  /\ Step(q, [q EXCEPT !.pc = "QueryFailed", !.error = "connection"])
  /\ UNCHANGED <<Store, pool, served, lastDone, lastCreated, removedSince,
                 created, deleted>>

\* app.post after the MAX query: compute the new ORD_NUM, send the INSERT
Allocate(q) ==
  LET num == NewOrderNum(q.result)
      stmt == InsertStatement(q, num)
  IN /\ q.pc = "Executed"
     /\ q.route = "POST" /\ q.stmt.kind = "SELECT_MAX"
     /\ Step(q, [q EXCEPT !.pc = "Executing", !.newOrderNum = num,
                          !.stmt = stmt, !.issued = Append(q.issued, stmt)])
     /\ UNCHANGED <<Store, pool, served, lastDone, lastCreated, removedSince,
                    created, deleted>>

\* the last statement has executed: respond, then release in finally
Respond(q) ==
  /\ q.pc = "Executed"
  /\ ~(q.route = "POST" /\ q.stmt.kind = "SELECT_MAX")
  /\ Finish(q, HandlerReply(q), "Executed")
  /\ reqs' = reqs (-) One(q)
  /\ UNCHANGED <<Store, served>>

\* a query rejected: catch responds 500, then release in finally
Catch(q) ==
  /\ q.pc = "QueryFailed"
  /\ Finish(q, ErrorReply(q.error), "QueryFailed")
  /\ reqs' = reqs (-) One(q)
  /\ UNCHANGED <<Store, served>>

\* a request arrives, whatever the others are doing
Receive == \E r \in Overlapping : Arrive(r)

Next ==
  \/ Receive
  \/ \E q \in InFlight : GetConnection(q)
  \/ \E q \in InFlight : ConnectFailed(q)
  \/ \E q \in InFlight : DbExecute(q)
  \/ \E q \in InFlight : DbFail(q)
  \/ \E q \in InFlight : Allocate(q)
  \/ \E q \in InFlight : Respond(q)
  \/ \E q \in InFlight : Catch(q)

Spec == Init /\ [][Next]_vars

\* requests handled one at a time: none arrives while another is in flight
ReceiveAlone == InFlight = {} /\ \E r \in Requests : Arrive(r)

NextSeq ==
  \/ ReceiveAlone
  \/ \E q \in InFlight : GetConnection(q)
  \/ \E q \in InFlight : ConnectFailed(q)
  \/ \E q \in InFlight : DbExecute(q)
  \/ \E q \in InFlight : DbFail(q)
  \/ \E q \in InFlight : Allocate(q)
  \/ \E q \in InFlight : Respond(q)
  \/ \E q \in InFlight : Catch(q)

SeqSpec == Init /\ [][NextSeq]_vars

\* the server with a pool of SmallPool connections
InitSmallPool ==
  /\ orders = <<>>
  /\ customer = [i \in 1..(LIMIT + 1) |-> [CUST_CODE |-> i]]
  /\ student = [i \in 1..2 |-> [ROLLID |-> i]]
  /\ uniqueKey \in BOOLEAN
  /\ capacity = SmallPool
  /\ pool = 0
  /\ reqs = EmptyBag
  /\ served = 0
  /\ lastDone = NoRequest
  /\ lastCreated = <<>>
  /\ removedSince = FALSE
  /\ created = <<>>
  /\ deleted = [ok |-> 0, none |-> 0]

\* The pool hands a free connection to a waiting request; every statement
\* sent to the store executes or fails; every continuation of a handler
\* runs.  Requests need not arrive and getConnection need not reject.
Fairness ==
  /\ SF_vars(\E q \in InFlight : GetConnection(q))
  /\ WF_vars(\E q \in InFlight : DbExecute(q) \/ DbFail(q))
  /\ WF_vars(\E q \in InFlight : Allocate(q))
  /\ WF_vars(\E q \in InFlight : Respond(q))
  /\ WF_vars(\E q \in InFlight : Catch(q))

\* the requests that contend for the connections of the small pool: one
\* that sends two statements, one that sends one, one that is rejected
Contending ==
  {Request("POST", <<>>, BodyFull),
   Request("POST", <<>>, BodyNegative),
   Request("DELETE", <<"1">>, NoBody)}

ReceiveContending == \E r \in Contending : Arrive(r)

NextFair ==
  \/ ReceiveContending
  \/ \E q \in InFlight : GetConnection(q)
  \/ \E q \in InFlight : ConnectFailed(q)
  \/ \E q \in InFlight : DbExecute(q)
  \/ \E q \in InFlight : DbFail(q)
  \/ \E q \in InFlight : Allocate(q)
  \/ \E q \in InFlight : Respond(q)
  \/ \E q \in InFlight : Catch(q)

FairSpec == InitSmallPool /\ [][NextFair]_vars /\ Fairness

\* creations only, arriving whatever the others are doing
Creations == {Request("POST", <<>>, b) : b \in {BodyFull, BodyHtml}}

ReceiveCreation == \E r \in Creations : Arrive(r)

NextCreate ==
  \/ ReceiveCreation
  \/ \E q \in InFlight : GetConnection(q)
  \/ \E q \in InFlight : ConnectFailed(q)
  \/ \E q \in InFlight : DbExecute(q)
  \/ \E q \in InFlight : DbFail(q)
  \/ \E q \in InFlight : Allocate(q)
  \/ \E q \in InFlight : Respond(q)
  \/ \E q \in InFlight : Catch(q)

CreateSpec == Init /\ [][NextCreate]_vars

\* the row a POST of BodyFull leaves in an empty table
ExistingOrder ==
  [c \in SeqSet(RowColumns) |-> IF c = "ORD_NUM" THEN 1 ELSE BodyFull[c]]

\* the server starts on a store that holds one order
InitWithOrder ==
  /\ orders = <<ExistingOrder>>
  /\ customer = [i \in 1..(LIMIT + 1) |-> [CUST_CODE |-> i]]
  /\ student = [i \in 1..2 |-> [ROLLID |-> i]]
  /\ uniqueKey \in BOOLEAN
  /\ capacity = connectionLimit
  /\ pool = 0
  /\ reqs = EmptyBag
  /\ served = 0
  /\ lastDone = NoRequest
  /\ lastCreated = <<>>
  /\ removedSince = FALSE
  /\ created = <<>>
  /\ deleted = [ok |-> 0, none |-> 0]

\* DELETEs of that order and reads of the table, arriving whatever the
\* others are doing
Deletions ==
  {Request("DELETE", <<"1">>, NoBody), Request("GET_ORDERS", <<>>, NoBody)}

ReceiveDeletion == \E r \in Deletions : Arrive(r)

NextDelete ==
  \/ ReceiveDeletion
  \/ \E q \in InFlight : GetConnection(q)
  \/ \E q \in InFlight : ConnectFailed(q)
  \/ \E q \in InFlight : DbExecute(q)
  \/ \E q \in InFlight : DbFail(q)
  \/ \E q \in InFlight : Respond(q)
  \/ \E q \in InFlight : Catch(q)

DeleteSpec == InitWithOrder /\ [][NextDelete]_vars

(***************************************************************************)
(* Properties.                                                             *)
(***************************************************************************)
\* every request the state knows: those in flight and the one finished last
Known == InFlight \cup {lastDone}

OrdNums(t) == {t[i]["ORD_NUM"] : i \in 1..Len(t)}

TextColumns == {"CUST_CODE", "AGENT_CODE", "ORD_DESCRIPTION"}

\* C1: a POST /orders answered 201, handled with no other request in
\* flight, returns 1 + the largest ORD_NUM of the table as it was when the
\* request arrived (1 for an empty table), and the row it appended has that
\* ORD_NUM.
C1_OrdNumIsMaxPlusOne ==
  (lastDone.route = "POST" /\ lastDone.reply.status = 201) =>
    LET t == lastDone.before
        expected == IF Len(t) = 0 THEN 1 ELSE 1 + Max(OrdNums(t))
    IN /\ lastDone.reply.ORD_NUM = expected
       /\ Len(lastDone.after) = Len(t) + 1
       /\ SubSeq(lastDone.after, 1, Len(t)) = t
       /\ lastDone.after[Len(t) + 1]["ORD_NUM"] = expected

\* a creation on a table that already has rows
C1_Witness ==
  /\ lastDone.route = "POST" /\ lastDone.reply.status = 201
  /\ Len(lastDone.before) > 0
  /\ lastDone.reply.ORD_NUM = 2

\* a creation payload that lacks a field or breaks the rule of one
BadCreation(b) ==
  \/ \E c \in ColumnSet : ~Has(b, c)
  \/ ~isFloatMin0(Str(b, "ORD_AMOUNT")) \/ ~isFloatMin0(Str(b, "ADVANCE_AMOUNT"))
  \/ ~isDate(Str(b, "ORD_DATE"))
  \/ \E c \in TextColumns : ~notEmpty(Str(b, c))

\* C2: a POST /orders whose body lacks a required field, or has a field
\* that breaks its rule, is answered 400 with a list of errors; it acquires
\* no connection, sends no statement, and leaves the table as it was.
C2_BadCreationRejected ==
  \A q \in Known :
    (q.route = "POST" /\ BadCreation(q.raw)) =>
      /\ q.pc = "Done" /\ q.reply.status = 400 /\ Len(q.reply.errors) > 0
      /\ q.acquired = 0 /\ q.issued = <<>>
      /\ q.after = q.before

\* a creation without ORD_DESCRIPTION was rejected
C2_Witness ==
  /\ lastDone.route = "POST" /\ ~Has(lastDone.raw, "ORD_DESCRIPTION")
  /\ lastDone.reply.status = 400

\* C3: a PATCH with an empty body that passes validation never sends an
\* UPDATE with an empty SET clause to the store.
C3_NoEmptySetClause ==
  \A q \in Known :
    (q.route = "PATCH" /\ DOMAIN q.raw = {} /\ q.errors = <<>>) =>
      \A i \in 1..Len(q.issued) :
        q.issued[i].kind = "UPDATE" => Len(q.issued[i].cols) > 0

\* the number of requests in flight that hold a connection
HeldConnections ==
  BagCardinality([q \in {x \in InFlight : x.conn} |-> CopiesIn(q, reqs)])

\* C4: a request holds at most one connection; the pool count is the number
\* of requests holding one; a finished request that acquired a connection
\* released it exactly once and holds none, whatever its response.
C4_ReleasedExactlyOnce ==
  /\ \A q \in InFlight :
       /\ q.released = 0
       /\ q.acquired = (IF q.conn THEN 1 ELSE 0)
  /\ pool = HeldConnections
  /\ lastDone.pc = "Done" =>
       /\ ~lastDone.conn
       /\ lastDone.acquired <= 1
       /\ lastDone.released = lastDone.acquired
       /\ lastDone.sent = 1

\* a mutation answered 404 after it acquired and released a connection
C4_Witness ==
  /\ lastDone.reply.status = 404 /\ lastDone.route = "DELETE"
  /\ lastDone.acquired = 1 /\ lastDone.released = 1

\* C5: a DELETE whose ORD_NUM parameter is not an integer is answered 400
\* with a list of errors; it acquires no connection and sends no statement.
C5_DeleteRejectsNonInteger ==
  \A q \in Known :
    (q.route = "DELETE" /\ ~isInt(q.param)) =>
      /\ q.acquired = 0 /\ q.issued = <<>>
      /\ q.pc = "Done" => (q.reply.status = 400 /\ Len(q.reply.errors) > 0)

\* the text is that of a number below zero
Negative(v) == isDecimal(v) /\ v[1] = "-" /\ \E i \in 1..Len(v) : v[i] \in DigitSet \ {"0"}

\* C6: a PUT whose ORD_AMOUNT is negative is answered 400 with an error
\* that names ORD_AMOUNT; it reaches no connection and changes no row.
C6_NegativeAmountRejected ==
  \A q \in Known :
    (q.route = "PUT" /\ Negative(Str(q.raw, "ORD_AMOUNT"))) =>
      /\ q.acquired = 0 /\ q.issued = <<>>
      /\ q.pc = "Done" =>
           /\ q.reply.status = 400
           /\ \E i \in 1..Len(q.reply.errors) : q.reply.errors[i].field = "ORD_AMOUNT"
           /\ q.after = q.before

\* C7, as claimed: with requests handled one at a time, a successful
\* creation returns an ORD_NUM above that of the creation before it (the
\* returned values are pairwise distinct and never decrease), whatever
\* requests came between them.
C7_CreationsIncreaseAlways ==
  (lastDone.reply.status = 201 /\ lastDone.prevCreated # <<>>) =>
    lastDone.reply.ORD_NUM > lastDone.prevCreated[1]

\* C7, amended: with requests handled one at a time, a successful creation
\* returns an ORD_NUM above that of the creation before it, provided no row
\* was deleted and no row had its ORD_NUM rewritten between the two.
C7_CreationsIncreaseUnlessRemoved ==
  (lastDone.reply.status = 201 /\ lastDone.prevCreated # <<>> /\ ~lastDone.removed) =>
    lastDone.reply.ORD_NUM > lastDone.prevCreated[1]

\* a second creation, with a DELETE that found no row just before it
C7_Witness ==
  /\ lastDone.reply.status = 201 /\ lastDone.prevCreated = <<1>>
  /\ ~lastDone.removed
  /\ lastDone.reply.ORD_NUM = 2

\* C8: with requests handled one at a time and the store answering, a
\* DELETE for an ORD_NUM that has a row is answered 200 and leaves no row
\* with that ORD_NUM; the same DELETE right after it is answered 404
\* {message: "Order not found"} and leaves the table as it was.
C8_DeleteTwice ==
  (lastDone.route = "DELETE" /\ lastDone.via = "Executed" /\ isInt(lastDone.param)) =>
    LET k == ToInt(lastDone.param)
    IN /\ Matching(lastDone.before, k) # {} =>
            /\ lastDone.reply.status = 200
            /\ Matching(lastDone.after, k) = {}
            /\ Len(lastDone.after) < Len(lastDone.before)
       /\ lastDone.follows = lastDone.param =>
            /\ lastDone.reply.status = 404
            /\ lastDone.reply.message = "Order not found"
            /\ lastDone.after = lastDone.before

\* the second of two equal DELETEs in a row has finished
C8_Witness ==
  /\ lastDone.route = "DELETE" /\ lastDone.via = "Executed"
  /\ lastDone.follows = <<"1">> /\ lastDone.param = <<"1">>
  /\ lastDone.reply.status = 404

\* the rows of a finished request's table that its ORD_NUM parameter names
Target(q) == {q.after[i] : i \in Matching(q.after, ToInt(q.param))}

\* C9, as claimed: after a PUT answered 200 the row holds exactly the six
\* submitted values.
C9_PutStoresSubmitted ==
  (lastDone.route = "PUT" /\ lastDone.reply.status = 200) =>
    \A row \in Target(lastDone) : \A c \in ColumnSet : row[c] = lastDone.raw[c]

\* C9, amended: after a PUT answered 200 the row holds the submitted
\* ORD_AMOUNT, ADVANCE_AMOUNT and ORD_DATE, and for CUST_CODE, AGENT_CODE
\* and ORD_DESCRIPTION the submitted text trimmed and then HTML-escaped.
C9_PutStoresSanitized ==
  (lastDone.route = "PUT" /\ lastDone.reply.status = 200) =>
    /\ Target(lastDone) # {}
    /\ \A row \in Target(lastDone) : \A c \in ColumnSet :
         row[c] = IF c \in TextColumns THEN escape(trim(lastDone.raw[c]))
                  ELSE lastDone.raw[c]

\* a PUT of text with whitespace and HTML-special characters was answered 200
C9_Witness ==
  /\ lastDone.route = "PUT" /\ lastDone.reply.status = 200
  /\ lastDone.raw["ORD_DESCRIPTION"] = <<" ", "<", "b", " ">>
  /\ \E row \in Target(lastDone) : row["ORD_DESCRIPTION"] = <<"&", "l", "t", ";", "b">>

\* C10: with requests handled one at a time, a PUT, PATCH or DELETE with
\* valid input whose statement executed is answered 404 {message: "Order
\* not found"} exactly when no row had the targeted ORD_NUM, and then the
\* table is as it was; otherwise it is answered 200.
C10_NotFoundIffNoRow ==
  (/\ lastDone.route \in {"PUT", "PATCH", "DELETE"}
   /\ lastDone.via = "Executed" /\ isInt(lastDone.param)) =>
    LET none == Matching(lastDone.before, ToInt(lastDone.param)) = {}
    IN /\ lastDone.reply.status = (IF none THEN 404 ELSE 200)
       /\ none => (lastDone.reply.message = "Order not found"
                   /\ lastDone.after = lastDone.before)

\* a PATCH of an ORD_NUM that has no row was answered 404
C10_Witness ==
  /\ lastDone.route = "PATCH" /\ lastDone.via = "Executed"
  /\ lastDone.reply.status = 404 /\ lastDone.after = lastDone.before
  /\ Len(lastDone.before) > 0

\* the table a PATCH of the keys of body b with the values of function
\* value leaves, when it finds before: the rows of the targeted ORD_NUM
\* hold value[c] in every column c that is a key of b, every other column
\* and every other row is as before
Patched(before, param, b, value) ==
  [i \in 1..Len(before) |->
     IF before[i]["ORD_NUM"] # ToInt(param) THEN before[i]
     ELSE [c \in SeqSet(RowColumns) |->
             IF Has(b, c) THEN Stored(c, value[c]) ELSE before[i][c]]]

\* C11, as claimed: a PATCH answered 200 changes exactly the columns whose
\* keys are in the body, to the submitted values, and leaves every other
\* column of the row and every other row as it was.
C11_PatchStoresSubmitted ==
  (lastDone.route = "PATCH" /\ lastDone.reply.status = 200) =>
    lastDone.after = Patched(lastDone.before, lastDone.param, lastDone.raw,
                             lastDone.raw)

\* C11, amended: a PATCH answered 200 changes exactly the columns whose
\* keys are in the body, to the submitted values, ORD_DESCRIPTION to the
\* submitted text without its surrounding whitespace, and leaves every
\* other column of the row and every other row as it was.
C11_PatchStoresTrimmed ==
  (lastDone.route = "PATCH" /\ lastDone.reply.status = 200) =>
    /\ Matching(lastDone.before, ToInt(lastDone.param)) # {}
    /\ lastDone.after =
         Patched(lastDone.before, lastDone.param, lastDone.raw,
                 [c \in DOMAIN lastDone.raw |->
                    IF c = "ORD_DESCRIPTION" THEN trim(lastDone.raw[c])
                    ELSE lastDone.raw[c]])

\* a PATCH of ORD_AMOUNT alone, on a table with a second row, answered 200
C11_Witness ==
  /\ lastDone.route = "PATCH" /\ lastDone.reply.status = 200
  /\ lastDone.raw = BodyAmount
  /\ Len(lastDone.before) = 2
  /\ lastDone.after[1]["ORD_AMOUNT"] = <<"6", "0">>
  /\ lastDone.after[1]["CUST_CODE"] = lastDone.before[1]["CUST_CODE"]
  /\ lastDone.after[2] = lastDone.before[2]

\* a creation in flight whose MAX read is sent and not yet executed
Reading(q) == q.route = "POST" /\ q.pc = "Executing" /\ q.stmt.kind = "SELECT_MAX"

\* a creation in flight that has computed its ORD_NUM and not yet inserted
Inserting(q) == q.route = "POST" /\ q.pc = "Executing" /\ q.stmt.kind = "INSERT"

\* C12: nothing serializes the allocation read of a creation with the
\* insert of another: whenever a creation has sent its MAX read, the store
\* can execute that read at once, also while other creations are between
\* their own read and their insert, and while the table is as such a
\* creation read it, the read yields the new ORD_NUM that creation holds.
C12_AllocationNotSerialized ==
  \A p \in InFlight :
    Reading(p) =>
      /\ ENABLED DbExecute(p)
      /\ \A q \in InFlight :
           (Inserting(q) /\ q.result = SelectMax(orders)) =>
             NewOrderNum(SelectMax(orders)) = q.newOrderNum

\* two creations in flight have read the same maximum and both hold the
\* same new ORD_NUM, neither has inserted
C12_Witness ==
  \E p, q \in InFlight :
    /\ Inserting(p) /\ Inserting(q)
    /\ p # q \/ CopiesIn(p, reqs) = 2
    /\ p.result = q.result
    /\ p.newOrderNum = q.newOrderNum

ReadRoutes == {"GET_ORDERS", "GET_CUSTOMERS", "GET_STUDENTS"}

\* the table a read route selects from, as a finished request q found it
ReadTable(q) ==
  CASE q.route = "GET_ORDERS" -> q.before
    [] q.route = "GET_CUSTOMERS" -> customer
    [] q.route = "GET_STUDENTS" -> student

\* C13: each of GET /orders, /customers and /students sends one SELECT
\* and nothing else; when it executes the answer is 200 with the first
\* rows of the table, at most 10, and total is their number; when the
\* connection or the query fails the answer is 500 with an error; no
\* table is modified and a connection that was acquired is released.
C13_ReadsAnswer ==
  /\ customer = [i \in 1..(LIMIT + 1) |-> [CUST_CODE |-> i]]
  /\ student = [i \in 1..2 |-> [ROLLID |-> i]]
  /\ \A q \in Known :
       q.route \in ReadRoutes =>
         \A i \in 1..Len(q.issued) : q.issued[i].kind = "SELECT"
  /\ (lastDone.route \in ReadRoutes /\ lastDone.pc = "Done") =>
       LET t == ReadTable(lastDone)
           r == lastDone.reply
       IN /\ lastDone.after = lastDone.before
          /\ lastDone.released = lastDone.acquired
          /\ lastDone.via \in {"Executed", "ConnectFailed", "QueryFailed"}
          /\ lastDone.via = "Executed" =>
               /\ r.status = 200
               /\ r.total = Len(r.rows)
               /\ r.total = Min2(LIMIT, Len(t))
               /\ r.rows = SubSeq(t, 1, r.total)
          /\ lastDone.via # "Executed" => (r.status = 500 /\ r.error # "")

\* GET /customers on a table of more than 10 rows was answered with 10
C13_Witness ==
  /\ lastDone.route = "GET_CUSTOMERS" /\ lastDone.reply.status = 200
  /\ Len(customer) > LIMIT
  /\ lastDone.reply.total = LIMIT
  /\ lastDone.released = 1

Duplicate == "Duplicate entry for key PRIMARY"

\* the number of creations in flight whose INSERT has executed
InsertedInFlight ==
  BagCardinality([q \in {x \in InFlight : x.route = "POST" /\ x.pc = "Executed"
                                           /\ x.stmt.kind = "INSERT"}
                    |-> CopiesIn(q, reqs)])

\* C14: with a store that enforces a unique ORD_NUM and creations arriving
\* in any interleaving, no deletion among them, the table never has two
\* rows with one ORD_NUM and no two 201 responses carry one ORD_NUM; the
\* table has one row for each creation whose INSERT executed; a creation
\* whose INSERT the store rejects as a duplicate ends in QueryFailed with a
\* 500 response, having sent one INSERT and no more.
C14_UniqueStoreKeepsOrdNumsDistinct ==
  uniqueKey =>
    /\ UniqueOrdNum(orders)
    /\ \A i, j \in 1..Len(created) : created[i] = created[j] => i = j
    /\ Len(orders) = Len(created) + InsertedInFlight
    /\ \A q \in Known :
         (q.route = "POST" /\ q.error = Duplicate) =>
           /\ Len(q.issued) = 2 /\ q.issued[2].kind = "INSERT"
           /\ q.pc \in {"QueryFailed", "Done"}
           /\ q.pc = "Done" =>
                /\ q.via = "QueryFailed" /\ q.reply.status = 500
                /\ q.reply.error = Duplicate
                /\ q.released = 1

\* of two creations that held ORD_NUM 1 at once, one was answered 201 and
\* the other 500; the table has the one row
C14_Witness ==
  /\ uniqueKey
  /\ lastDone.route = "POST" /\ lastDone.error = Duplicate
  /\ lastDone.reply.status = 500 /\ lastDone.newOrderNum = 1
  /\ created = <<1>>
  /\ Len(orders) = 1

\* C15: a request in flight has sent no response; a finished request has
\* sent exactly one, and its status tells the state it left the handler
\* from: 400 exactly from Rejected, before any connection or statement;
\* 500 exactly from ConnectFailed or QueryFailed; 200, 201 or 404 exactly
\* after its last statement executed.
C15_OneResponseAlongStateMachine ==
  /\ \A q \in InFlight :
       /\ q.sent = 0
       /\ q.pc \in {"Connecting", "Executing", "Executed", "QueryFailed"}
       /\ q.pc = "Connecting" => (q.acquired = 0 /\ q.issued = <<>>)
  /\ lastDone.pc = "Done" =>
       LET r == lastDone.reply
       IN /\ lastDone.sent = 1
          /\ r.status \in {200, 201, 400, 404, 500}
          /\ r.status = 400 <=> lastDone.via = "Rejected"
          /\ r.status = 500 <=> lastDone.via \in {"ConnectFailed", "QueryFailed"}
          /\ r.status \in {200, 201, 404} <=> lastDone.via = "Executed"
          /\ lastDone.via \in {"Rejected", "ConnectFailed"} =>
               (lastDone.acquired = 0 /\ lastDone.issued = <<>>)
          /\ lastDone.via = "QueryFailed" =>
               (lastDone.acquired = 1 /\ lastDone.issued # <<>> /\ lastDone.error # "")
          /\ lastDone.via = "Executed" =>
               (lastDone.acquired = 1 /\ lastDone.issued # <<>> /\ lastDone.error = "")

\* a request answered 404 after its statement executed has sent one response
C15_Witness ==
  /\ lastDone.pc = "Done" /\ lastDone.reply.status = 404
  /\ lastDone.via = "Executed" /\ lastDone.sent = 1
  /\ InFlight # {}

\* C16: with a pool of fewer connections than requests in flight, a fair
\* pool and a store that answers or fails every statement, every request
\* received leaves its handler with a response: from some point on none
\* is in flight; and whenever none is in flight every connection of the
\* pool is free.
C16_EveryRequestFinishes ==
  /\ [](reqs = EmptyBag => pool = 0)
  /\ [](pool <= capacity)
  /\ <>[](reqs = EmptyBag)

\* a request waits for a connection while another holds the only one
C16_Witness ==
  /\ pool = capacity
  /\ \E q \in InFlight : q.pc = "Connecting"
  /\ \E q \in InFlight : q.conn

\* C17: a creation whose MAX query fails has sent that one statement and
\* no INSERT, holds no new ORD_NUM, and ends with a 500 response that
\* carries the error; the table is as the request found it and the
\* connection is released.
C17_FailedAllocationStops ==
  \A q \in Known :
    (q.route = "POST" /\ q.stmt.kind = "SELECT_MAX" /\ q.error # "") =>
      /\ Len(q.issued) = 1
      /\ q.newOrderNum = 0
      /\ q.pc \in {"QueryFailed", "Done"}
      /\ q.pc = "QueryFailed" => orders = q.before
      /\ q.pc = "Done" =>
           /\ q.via = "QueryFailed"
           /\ q.reply.status = 500 /\ q.reply.error = q.error
           /\ q.after = q.before
           /\ q.acquired = 1 /\ q.released = 1 /\ ~q.conn

\* a creation on a table with a row ended 500 after its MAX query failed
C17_Witness ==
  /\ lastDone.route = "POST" /\ lastDone.stmt.kind = "SELECT_MAX"
  /\ lastDone.reply.status = 500 /\ lastDone.via = "QueryFailed"
  /\ Len(lastDone.before) = 1 /\ orders = lastDone.before
  /\ pool = 0

\* C18: for a PATCH that passes validation every column in the SET clause
\* of its UPDATE is one of the six order columns, whatever keys the body
\* has, and the PATCH leaves the ORD_NUM of every row as it was.
C18_PatchColumnsAllowed ==
  \A q \in Known :
    (q.route = "PATCH" /\ q.errors = <<>>) =>
      /\ \A i \in 1..Len(q.issued) :
           q.issued[i].kind = "UPDATE" => SeqSet(q.issued[i].cols) \subseteq ColumnSet
      /\ q.pc = "Done" =>
           /\ Len(q.after) = Len(q.before)
           /\ \A i \in 1..Len(q.after) :
                q.after[i]["ORD_NUM"] = q.before[i]["ORD_NUM"]

\* a valid replacement payload that has every field but ORD_DESCRIPTION
FullButDescription(p, b) ==
  /\ isInt(p)
  /\ DOMAIN b = ColumnSet \ {"ORD_DESCRIPTION"}
  /\ isDecimal(b["ORD_AMOUNT"]) /\ isDecimal(b["ADVANCE_AMOUNT"])
  /\ isISO8601(b["ORD_DATE"])

\* C19: a PUT with an integer ORD_NUM and valid ORD_AMOUNT,
\* ADVANCE_AMOUNT, ORD_DATE, CUST_CODE and AGENT_CODE but no
\* ORD_DESCRIPTION passes validation and goes on to the UPDATE: it is not
\* answered 400.
C19_PutWithoutDescriptionPasses ==
  \A q \in Known :
    (q.route = "PUT" /\ FullButDescription(q.param, q.raw)) =>
      /\ q.errors = <<>>
      /\ q.pc = "Done" => q.reply.status # 400

\* the DELETEs in flight
DeletesInFlight == {q \in InFlight : q.route = "DELETE"}

\* the number of DELETEs in flight whose statement removed a row and that
\* have not responded yet
RemoversInFlight ==
  BagCardinality([q \in {x \in DeletesInFlight :
                           x.pc = "Executed" /\ x.result.affectedRows > 0}
                    |-> CopiesIn(q, reqs)])

\* C20: with DELETEs of one existing ORD_NUM in flight together, no
\* creation among them, in every interleaving the row is removed once, by
\* one DELETE, and that one is answered 200; a DELETE whose statement
\* executed is answered 404 only after the row is gone; so of the DELETEs
\* whose statement executed exactly one is answered 200 and the others 404.
C20_OneDeleteWins ==
  LET gone == Matching(orders, 1) = {}
  IN /\ deleted.ok + RemoversInFlight = (IF gone THEN 1 ELSE 0)
     /\ deleted.none > 0 => gone
     /\ \A q \in DeletesInFlight :
          q.pc = "Executed" => (q.result.affectedRows = 0 => gone)
     /\ (lastDone.route = "DELETE" /\ lastDone.via = "Executed") =>
          lastDone.reply.status = (IF lastDone.result.affectedRows > 0 THEN 200
                                   ELSE 404)
     /\ (DeletesInFlight = {} /\ deleted.ok + deleted.none > 0) => deleted.ok = 1

\* two DELETEs arrived while the order was there: one was answered 200,
\* the other 404
C20_Witness ==
  /\ reqs = EmptyBag
  /\ deleted = [ok |-> 1, none |-> 1]
  /\ lastDone.route = "DELETE" /\ lastDone.reply.status = 404
  /\ Matching(lastDone.before, 1) # {}
  /\ orders = <<>>

=============================================================================
